---- MODULE Spec2Model ----
(***************************************************************************)
(* State-machine model of the shopkeeper-station client: the session and   *)
(* route guard, the three listing views (storefront, vendor dashboard,     *)
(* admin panel) and the product form, over a backend holding the products  *)
(* and product_photos collections.                                         *)
(*                                                                         *)
(* Text values are sequences of one-character strings, so that lower-      *)
(* casing and substring search are computed rather than assumed.           *)
(***************************************************************************)
EXTENDS Integers, Sequences, FiniteSets, TLC

VARIABLES
  \* session provider
  authLoading, user,
  \* router, route guard and the mounted page
  route, mounted, guardEffect, pageEffect, pageRequest, navCount,
  \* backend collections
  dbProducts, dbPhotos,
  \* listing view state
  view, products, loading, fetchPc, productsData, photosData, deletes,
  searchTerm, toast,
  \* product form state
  formMode, formLoading, loadPc, loadedIds, product, photos, isSubmitting,
  sub, submits, blobs, storage,
  \* admin login page state
  login

sessVars == <<authLoading, user>>
navVars  == <<route, mounted, guardEffect, pageEffect, pageRequest, navCount>>
dbVars   == <<dbProducts, dbPhotos>>
listVars == <<view, products, loading, fetchPc, productsData, photosData,
              deletes, searchTerm, toast>>
formVars == <<formMode, formLoading, loadPc, loadedIds, product, photos,
              isSubmitting, sub, submits, blobs, storage>>
vars     == <<sessVars, navVars, dbVars, listVars, formVars, login>>

(***************************************************************************)
(* Bounds of the model.                                                    *)
(***************************************************************************)
MaxProducts == 2
MaxPhotos == 2
MaxInFlight == 2
MaxFilterProducts == 2
MaxStoredPhotos == 2
MaxBlobs == 1
MaxSubmits == 2
MaxLoginCalls == 2
MaxUploads == 2

(***************************************************************************)
(* Values.  An identifier is a positive integer and NoId the absent one    *)
(* (null); a text is a sequence of characters and NULL the absent text.    *)
(***************************************************************************)
NoId == 0
NULL == <<"null">>
\* What reading a missing key of an object yields, where an array is expected.
UNDEFINED == <<[undefined |-> TRUE]>>

\* The truthiness of a nullable text: null and "" are falsy.
Truthy(v) == v # NULL /\ v # <<>>

\* String.prototype.toLowerCase, character by character.
LowerChar(c) == CASE c = "A" -> "a" [] c = "B" -> "b" [] OTHER -> c
ToLowerCase(s) == [i \in 1..Len(s) |-> LowerChar(s[i])]

\* String.prototype.includes: q occurs in s as a contiguous run.
Includes(s, q) ==
  \E off \in 0..(Len(s) - Len(q)) : \A k \in 1..Len(q) : s[off + k] = q[k]


(***************************************************************************)
(* Listing views: the fetch of products and photos and their merge.        *)
(***************************************************************************)
ListingViews == {"index", "dashboard", "admin"}

\* photosByProduct after the first n fetched photos: photos are appended to
\* the list of their product_id, a photo without product_id is skipped.
RECURSIVE GroupPhotos(_, _)
GroupPhotos(rows, n) ==
  IF n = 0 THEN [k \in {} |-> <<>>]
  ELSE LET acc == GroupPhotos(rows, n - 1)
           photo == rows[n]
           pid == photo.product_id
       IN IF pid # NoId
          THEN [k \in DOMAIN acc \cup {pid} |->
                  IF k = pid
                  THEN Append(IF pid \in DOMAIN acc THEN acc[pid] ELSE <<>>, photo)
                  ELSE acc[k]]
          ELSE acc

\* photosByProduct[id]
PhotosOf(photosByProduct, id) ==
  IF id \in DOMAIN photosByProduct THEN photosByProduct[id] ELSE UNDEFINED

\* list || []
OrEmpty(list) == IF list = UNDEFINED THEN <<>> ELSE list

\* WithPhotos without the "|| []" default.
WithPhotosNoDefault(p, photosByProduct) ==
  [photos |-> PhotosOf(photosByProduct, p.id)] @@ p

\* { ...product, photos: photosByProduct[p.id] || [] }
WithPhotos(p, photosByProduct) ==
  [photos |-> OrEmpty(PhotosOf(photosByProduct, p.id))] @@ p

\* productsData.map(...)
MergePhotos(prods, rows) ==
  LET photosByProduct == GroupPhotos(rows, Len(rows))
  IN [i \in 1..Len(prods) |-> WithPhotos(prods[i], photosByProduct)]


(***************************************************************************)
(* Session users.  The admin is told by the characters "admin" in the      *)
(* e-mail address.                                                         *)
(***************************************************************************)
NoUser == [absent |-> TRUE]
AdminUser == [id |-> 1, email |-> <<"a", "d", "m", "i", "n", "@", "x">>]
VendorUser == [id |-> 2, email |-> <<"v", "@", "x">>]
Users == {AdminUser, VendorUser}

\* user.email?.includes("admin")
EmailIncludesAdmin(u) == Includes(u.email, <<"a", "d", "m", "i", "n">>)

(***************************************************************************)
(* The backend collections a listing view reads.                           *)
(***************************************************************************)
ProductIds == 1..MaxProducts

\* The user a products row belongs to: the rows alternate between the two
\* users, so a table of two rows holds one of each.
OwnerOf(i) == IF i % 2 = 1 THEN AdminUser.id ELSE VendorUser.id

\* A products row as the listing views read it.
ProductRow(i) ==
  [id |-> i, name |-> <<"a">>, category |-> NULL, description |-> NULL,
   user_id |-> OwnerOf(i)]

\* The ids of S, largest (latest created) first:
\* .order("created_at", { ascending: false })
RECURSIVE NewestFirst(_)
NewestFirst(S) ==
  IF S = {} THEN <<>>
  ELSE LET m == CHOOSE x \in S : \A y \in S : y <= x
       IN <<m>> \o NewestFirst(S \ {m})

ProductTables ==
  { [k \in 1..Len(NewestFirst(S)) |-> ProductRow(NewestFirst(S)[k])] :
      S \in SUBSET ProductIds }

\* product_photos rows: any reference, absent and dangling ones included.
PhotoTables ==
  UNION { { [k \in 1..n |-> [id |-> k, product_id |-> ref[k]]] :
              ref \in [1..n -> {NoId} \cup ProductIds] } : n \in 0..MaxPhotos }

\* The identifiers of the products rows.
ProductIdsIn(rows) == {rows[i].id : i \in 1..Len(rows)}

\* .from("products").delete().eq("id", id)
ProductsWithout(rows, id) == SelectSeq(rows, LAMBDA r : r.id # id)

\* product_photos rows go with their product (cascade in the backend).
PhotosWithoutProduct(rows, id) == SelectSeq(rows, LAMBDA r : r.product_id # id)

(***************************************************************************)
(* Listing view actions.                                                   *)
(***************************************************************************)
\* The condition under which the mount effect starts fetchProducts.
FetchCondition(v, u) ==
  CASE v = "index" -> TRUE
    [] v = "dashboard" -> u # NoUser
    [] v = "admin" -> u # NoUser /\ EmailIncludesAdmin(u)

\* The mount effect calls fetchProducts: the products select is issued.
FetchStart ==
  /\ fetchPc = "idle"
  /\ FetchCondition(view, user)
  /\ fetchPc' = "products"
  /\ UNCHANGED <<sessVars, navVars, dbVars, view, products, loading,
                 productsData, photosData, deletes, searchTerm, toast>>
  /\ UNCHANGED formVars
  /\ UNCHANGED login

\* FetchProductsOk that shows the product rows before the photos arrive.
FetchProductsOkWritingList ==
  /\ fetchPc = "products"
  /\ productsData' = dbProducts
  /\ products' = dbProducts
  /\ fetchPc' = "photos"
  /\ UNCHANGED <<sessVars, navVars, dbVars, view, loading,
                 photosData, deletes, searchTerm, toast>>
  /\ UNCHANGED formVars
  /\ UNCHANGED login

\* The products select answers; on success the photos select is issued.
FetchProductsOk ==
  /\ fetchPc = "products"
  /\ productsData' = dbProducts
  /\ fetchPc' = "photos"
  /\ UNCHANGED <<sessVars, navVars, dbVars, view, products, loading,
                 photosData, deletes, searchTerm, toast>>
  /\ UNCHANGED formVars
  /\ UNCHANGED login

\* FetchFails that issues the products select again instead of stopping.
FetchFailsRetrying ==
  /\ fetchPc \in {"products", "photos"}
  /\ toast' = "fetchError"
  /\ loading' = FALSE
  /\ fetchPc' = "products"
  /\ UNCHANGED <<sessVars, navVars, dbVars, view, products, productsData,
                 photosData, deletes, searchTerm>>
  /\ UNCHANGED formVars
  /\ UNCHANGED login

\* throw productsError / throw photosError: catch, then finally.
FetchFails ==
  /\ fetchPc \in {"products", "photos"}
  /\ toast' = "fetchError"
  /\ loading' = FALSE
  /\ fetchPc' = "failed"
  /\ UNCHANGED <<sessVars, navVars, dbVars, view, products, productsData,
                 photosData, deletes, searchTerm>>
  /\ UNCHANGED formVars
  /\ UNCHANGED login

\* The photos select answers: group, merge, setProducts, then finally.
FetchPhotosOk ==
  /\ fetchPc = "photos"
  /\ photosData' = dbPhotos
  /\ products' = MergePhotos(productsData, dbPhotos)
  /\ loading' = FALSE
  /\ fetchPc' = "done"
  /\ UNCHANGED <<sessVars, navVars, dbVars, view, productsData, deletes,
                 searchTerm, toast>>
  /\ UNCHANGED formVars
  /\ UNCHANGED login


(***************************************************************************)
(* Admin search.                                                           *)
(***************************************************************************)
\* ProductMatches with the search term left as typed (not lower-cased).
ProductMatchesTermAsTyped(p, term) ==
  \/ Includes(ToLowerCase(p.name), term)
  \/ /\ Truthy(p.category)
     /\ Includes(ToLowerCase(p.category), term)
  \/ /\ Truthy(p.description)
     /\ Includes(ToLowerCase(p.description), term)

\* The predicate of filteredProducts, with the search term as typed.
ProductMatches(p, term) ==
  \/ Includes(ToLowerCase(p.name), ToLowerCase(term))
  \/ /\ Truthy(p.category)
     /\ Includes(ToLowerCase(p.category), ToLowerCase(term))
  \/ /\ Truthy(p.description)
     /\ Includes(ToLowerCase(p.description), ToLowerCase(term))

\* products.filter(product => ...)
FilterProducts(list, term) ==
  SelectSeq(list, LAMBDA p : ProductMatches(p, term))

\* const filteredProducts, recomputed at every render.
FilteredProducts == FilterProducts(products, searchTerm)

\* What the search box can hold.
QueryPool ==
  { <<>>, <<"a">>, <<"B">>, <<"a", "B">>, <<"b", "b">>, <<"A", "b", "a">> }

\* A search that stores its result over the fetched products.
SetSearchTermDestructive(q) ==
  /\ view = "admin"
  /\ searchTerm' = q
  /\ products' = SelectSeq(products, LAMBDA p :
                   \/ Includes(ToLowerCase(p.name), ToLowerCase(q))
                   \/ /\ Truthy(p.category)
                      /\ Includes(ToLowerCase(p.category), ToLowerCase(q))
                   \/ /\ Truthy(p.description)
                      /\ Includes(ToLowerCase(p.description), ToLowerCase(q)))
  /\ UNCHANGED <<sessVars, navVars, dbVars, view, loading, fetchPc,
                 productsData, photosData, deletes, toast>>
  /\ UNCHANGED formVars
  /\ UNCHANGED login

\* onChange={(e) => setSearchTerm(e.target.value)}
SetSearchTerm(q) ==
  /\ view = "admin"
  /\ searchTerm' = q
  /\ UNCHANGED <<sessVars, navVars, dbVars, view, products, loading, fetchPc,
                 productsData, photosData, deletes, toast>>
  /\ UNCHANGED formVars
  /\ UNCHANGED login

(***************************************************************************)
(* Deleting from a listing view.                                           *)
(***************************************************************************)
\* The rows that show a Delete button.
VisibleProducts ==
  CASE view = "dashboard" -> products
    [] view = "admin" -> FilteredProducts
    [] OTHER -> <<>>

VisibleIds == { VisibleProducts[i].id : i \in 1..Len(VisibleProducts) }

\* products.filter(product => product.id !== id)
RemoveProduct(list, id) == SelectSeq(list, LAMBDA p : p.id # id)

\* A delete that removes the row from the list before the backend answers.
DeleteConfirmedOptimistic(id) ==
  /\ ~loading
  /\ id \in VisibleIds
  /\ Cardinality(deletes) < MaxInFlight
  /\ deletes' = deletes \cup {[id |-> id, products |-> products]}
  /\ products' = RemoveProduct(products, id)
  /\ UNCHANGED <<sessVars, navVars, dbVars, view, loading, fetchPc,
                 productsData, photosData, searchTerm, toast>>
  /\ UNCHANGED formVars
  /\ UNCHANGED login

\* The user confirms the dialog: handleDelete issues the delete request.  The
\* handler keeps the products of the render it was created in.  (deletes is
\* the set of requests awaiting their answer; a second click on the same row
\* of the same render adds nothing to it.)
DeleteConfirmed(id) ==
  /\ ~loading
  /\ id \in VisibleIds
  /\ Cardinality(deletes) < MaxInFlight
  /\ deletes' = deletes \cup {[id |-> id, products |-> products]}
  /\ UNCHANGED <<sessVars, navVars, dbVars, view, products, loading, fetchPc,
                 productsData, photosData, searchTerm, toast>>
  /\ UNCHANGED formVars
  /\ UNCHANGED login

\* The user declines the dialog: nothing is issued.
DeleteDeclined(id) ==
  /\ ~loading
  /\ id \in VisibleIds
  /\ UNCHANGED vars

\* The backend deletes the row and answers request r without error:
\* setProducts(products.filter(...)) over the handler's products.
DeleteSucceeds(r) ==
  /\ r \in deletes
  /\ dbProducts' = ProductsWithout(dbProducts, r.id)
  /\ dbPhotos' = PhotosWithoutProduct(dbPhotos, r.id)
  /\ products' = RemoveProduct(r.products, r.id)
  /\ toast' = "deleted"
  /\ deletes' = deletes \ {r}
  /\ UNCHANGED <<sessVars, navVars, view, loading, fetchPc, productsData,
                 photosData, searchTerm>>
  /\ UNCHANGED formVars
  /\ UNCHANGED login

\* The delete request r answers with an error: throw error, caught.
DeleteFails(r) ==
  /\ r \in deletes
  /\ toast' = "deleteError"
  /\ deletes' = deletes \ {r}
  /\ UNCHANGED <<sessVars, navVars, dbVars, view, products, loading, fetchPc,
                 productsData, photosData, searchTerm>>
  /\ UNCHANGED formVars
  /\ UNCHANGED login

\* No submission has been started.
NoSub ==
  [pc |-> "idle", form |-> [name |-> <<>>, mrp |-> <<>>, discount |-> <<>>],
   userId |-> NoId, photos |-> <<>>, productId |-> NoId, k |-> 0, inserted |-> {},
   wrote |-> FALSE, log |-> <<>>]

\* The product form's fields as useState initialises them.
EmptyForm == [name |-> <<>>, mrp |-> <<>>, discount |-> <<>>]

\* The product form's state while another view is studied.
FormIdle ==
  /\ formMode = "create"
  /\ formLoading = FALSE
  /\ loadPc = "idle"
  /\ loadedIds = {}
  /\ product = EmptyForm
  /\ photos = <<>>
  /\ isSubmitting = FALSE
  /\ sub = NoSub
  /\ submits = 0
  /\ blobs = <<>>
  /\ storage = {}

\* The admin login page as useState initialises it: empty inputs, not busy;
\* pc is the authentication call awaiting its answer, sent the email it was
\* made with, and calls counts the calls made.
NoLogin ==
  [email |-> <<>>, password |-> <<>>, isLoading |-> FALSE, pc |-> "idle",
   sent |-> <<>>, calls |-> 0]

\* The admin login page's state while another view is studied.
LoginIdle == login = NoLogin

\* The state of the router and the guard while a listing view is studied.
NavIdle ==
  /\ mounted = TRUE
  /\ guardEffect = FALSE
  /\ pageEffect = "none"
  /\ pageRequest = {}
  /\ navCount = 0

ListingRoute(v) ==
  CASE v = "index" -> "/" [] v = "dashboard" -> "/dashboard" [] v = "admin" -> "/admin"

InitListing ==
  /\ authLoading = FALSE
  /\ user = AdminUser
  /\ view \in ListingViews
  /\ route = ListingRoute(view)
  /\ NavIdle
  /\ dbProducts \in ProductTables
  /\ dbPhotos \in PhotoTables
  /\ products = <<>>
  /\ loading = TRUE
  /\ fetchPc = "idle"
  /\ productsData = <<>>
  /\ photosData = <<>>
  /\ deletes = {}
  /\ searchTerm = <<>>
  /\ toast = "none"
  /\ FormIdle
  /\ LoginIdle

NextListing ==
  \/ FetchStart
  \/ FetchProductsOk
  \/ FetchFails
  \/ FetchPhotosOk
  \/ \E id \in ProductIds : DeleteConfirmed(id)
  \/ \E id \in ProductIds : DeleteDeclined(id)
  \/ \E r \in deletes : DeleteSucceeds(r)
  \/ \E r \in deletes : DeleteFails(r)

SpecListing == InitListing /\ [][NextListing]_vars


(***************************************************************************)
(* Claims about the listing views.                                         *)
(***************************************************************************)
\* The fetched photos that reference product id, in fetch order.
PhotosReferencing(id) ==
  SelectSeq(photosData, LAMBDA f : f.product_id = id)

\* C1: in the merged listing state every product carries exactly the
\* fetched photos whose product_id is its id, in fetch order; a product
\* without a matching photo carries the empty list, never undefined.
C1_MergeByProductId ==
  \A i \in 1..Len(products) :
    /\ products[i].photos # UNDEFINED
    /\ products[i].photos = PhotosReferencing(products[i].id)

\* C1 witness: a merged list with a product holding two photos and a
\* product holding none.
C1_Witness ==
  /\ fetchPc = "done"
  /\ \E i, j \in 1..Len(products) :
       /\ Len(products[i].photos) = 2
       /\ products[j].photos = <<>>

\* C2: a confirmed delete of product id takes exactly that product out of
\* the visible list: the list after the answer is the list before it
\* without id, the others present, unchanged and in the same order.
C2_DeleteRemovesExactlyThat ==
  [][\A r \in deletes :
       DeleteSucceeds(r) => products' = RemoveProduct(products, r.id)]_vars


(***************************************************************************)
(* The admin panel after its fetch, with products of varied text.          *)
(***************************************************************************)
NamePool == { <<"a">>, <<"A", "b">>, <<"b", "A", "b">> }
CategoryPool == { NULL, <<>>, <<"a", "B">> }
DescriptionPool == { NULL, <<"B", "a">> }

FetchedRowTexts ==
  [name : NamePool, category : CategoryPool, description : DescriptionPool]

\* Fetched product lists of up to MaxFilterProducts rows.
FetchedLists ==
  UNION { { [k \in 1..n |->
               [id |-> k, name |-> t[k].name, category |-> t[k].category,
                description |-> t[k].description]] :
            t \in [1..n -> FetchedRowTexts] } : n \in 0..MaxFilterProducts }

InitFilter ==
  /\ authLoading = FALSE
  /\ user = AdminUser
  /\ view = "admin"
  /\ route = "/admin"
  /\ NavIdle
  /\ dbProducts \in FetchedLists
  /\ dbPhotos = <<>>
  /\ productsData = dbProducts
  /\ photosData = <<>>
  /\ products = MergePhotos(productsData, photosData)
  /\ loading = FALSE
  /\ fetchPc = "done"
  /\ deletes = {}
  /\ searchTerm = <<>>
  /\ toast = "none"
  /\ FormIdle
  /\ LoginIdle

NextFilter == \E q \in QueryPool : SetSearchTerm(q)

SpecFilter == InitFilter /\ [][NextFilter]_vars

(***************************************************************************)
(* Claims about the admin search.                                          *)
(***************************************************************************)
\* Two characters are the same letter, whatever their case.
SameLetter(c, d) ==
  c = d \/ {c, d} = {"a", "A"} \/ {c, d} = {"b", "B"}

\* text contains q as a contiguous run, compared letter by letter
\* regardless of case; an absent text contains nothing.
ContainsIgnoringCase(text, q) ==
  /\ text # NULL
  /\ \E off \in 0..(Len(text) - Len(q)) :
       \A k \in 1..Len(q) : SameLetter(text[off + k], q[k])

\* C3: the filtered list is exactly the sub-list of the fetched products
\* whose name, category or description contains the search term
\* case-insensitively (an absent field never matches), and it is the whole
\* fetched list when the search term is empty.
C3_FilterIsCaseInsensitiveSubList ==
  /\ FilteredProducts =
       SelectSeq(products, LAMBDA p :
         \/ ContainsIgnoringCase(p.name, searchTerm)
         \/ ContainsIgnoringCase(p.category, searchTerm)
         \/ ContainsIgnoringCase(p.description, searchTerm))
  /\ (searchTerm = <<>> => FilteredProducts = products)

\* C3 witness: a term typed with an upper-case letter keeps one product, by
\* its category alone, and drops another whose description is absent.
C3_Witness ==
  /\ searchTerm = <<"a", "B">>
  /\ Len(products) = 2
  /\ Len(FilteredProducts) = 1
  /\ ~ContainsIgnoringCase(FilteredProducts[1].name, searchTerm)
  /\ FilteredProducts[1].category = <<"a", "B">>
  /\ \E i \in 1..2 : products[i].description = NULL /\ products[i].category = NULL

\* C4: filtering is idempotent and leaves the fetched products alone: when
\* a term q is typed the products state is unchanged, and filtering the
\* filtered list with q again yields the same list.
C4_FilterIdempotentAndPure ==
  [][\A q \in QueryPool :
       SetSearchTerm(q) =>
         /\ products' = products
         /\ FilterProducts(FilteredProducts', q) = FilteredProducts']_vars

\* C4 witness: a non-empty term under which the filter keeps some products
\* and drops others.
C4_Witness ==
  /\ searchTerm # <<>>
  /\ Len(FilteredProducts) > 0
  /\ Len(FilteredProducts) < Len(products)


(***************************************************************************)
(* Session provider, router and route guard.                               *)
(*                                                                         *)
(* mounted: the page of the current route is rendered.  guardEffect: the   *)
(* guard's redirect check is scheduled (it runs after the render in which  *)
(* it mounted or in which user or loading changed).  pageEffect: the       *)
(* page's effects are scheduled, all of them ("mount") or those depending  *)
(* on the user ("deps").  pageRequest: the routes whose page has a backend *)
(* request in flight.  navCount: the navigations to the login route issued *)
(* since the session state or the route last changed.                      *)
(***************************************************************************)
Routes ==
  {"/", "/auth", "/dashboard", "/products/new", "/products/edit", "/admin"}

\* The routes whose element a mutant of App leaves without AuthGuard.
RoutesWithAuthGuardButEdit == {"/dashboard", "/products/new", "/admin"}

\* The routes whose element App wraps in AuthGuard.
RoutesWithAuthGuard ==
  {"/dashboard", "/products/new", "/products/edit", "/admin"}

\* The pages that call useRequireAuth themselves.
PagesRequiringAuth ==
  {"/dashboard", "/products/new", "/products/edit", "/admin"}

\* AuthGuard renders the wrapped view once loading is over and a user is
\* present, nothing otherwise.
AuthGuardRendersChildren(l, u) == ~l /\ u # NoUser

\* Whether the page of route r is rendered in session state (l, u).
RenderPage(r, l, u) ==
  IF r \in RoutesWithAuthGuard THEN AuthGuardRendersChildren(l, u) ELSE TRUE

\* useRequireAuth with the loading flag ignored.
RequireAuthRedirectsIgnoringLoading(l, u) == u = NoUser

\* useRequireAuth: if (!loading && !user) navigate(redirectTo)
RequireAuthRedirects(l, u) == ~l /\ u = NoUser

\* AdminPage: if (user && !user.email?.includes("admin")) navigate('/')
AdminPageRedirects(r, u) ==
  r = "/admin" /\ u # NoUser /\ ~EmailIncludesAdmin(u)

\* Whether the data effect of the page of route r issues its request, when
\* it runs on mount (kind "mount") or because the user changed ("deps").
PageFetches(r, u, kind) ==
  CASE r = "/" -> kind = "mount" /\ FetchCondition("index", u)
    [] r = "/dashboard" -> FetchCondition("dashboard", u)
    [] r = "/admin" -> FetchCondition("admin", u)
    [] r = "/products/edit" -> kind = "mount"
    [] OTHER -> FALSE

\* The render after the session state became (l, u) on the current route.
SessionRender(l, u) ==
  /\ mounted' = RenderPage(route, l, u)
  /\ guardEffect' = (route \in RoutesWithAuthGuard)
  /\ pageEffect' = IF ~RenderPage(route, l, u) THEN "none"
                   ELSE IF ~mounted THEN "mount"
                   ELSE IF route \in PagesRequiringAuth THEN "deps"
                   ELSE "none"
  /\ navCount' = 0
  /\ UNCHANGED <<route, pageRequest>>

\* Effects are flushed before the next event is handled.
EffectsFlushed == ~guardEffect /\ pageEffect = "none"

\* The initial session resolution ends with user u, or with none.
SessionResolves(u) ==
  /\ EffectsFlushed
  /\ authLoading
  /\ authLoading' = FALSE
  /\ user' = u
  /\ SessionRender(FALSE, u)
  /\ UNCHANGED <<dbVars, listVars>>
  /\ UNCHANGED formVars
  /\ UNCHANGED login

\* signIn succeeds on the login route.
SignIn(u) ==
  /\ EffectsFlushed
  /\ ~authLoading
  /\ user = NoUser
  /\ route = "/auth"
  /\ user' = u
  /\ SessionRender(FALSE, u)
  /\ UNCHANGED <<authLoading, dbVars, listVars>>
  /\ UNCHANGED formVars
  /\ UNCHANGED login

\* signOut (the Sign Out buttons), or the session ending.
SignOut ==
  /\ EffectsFlushed
  /\ ~authLoading
  /\ user # NoUser
  /\ user' = NoUser
  /\ SessionRender(FALSE, NoUser)
  /\ UNCHANGED <<authLoading, dbVars, listVars>>
  /\ UNCHANGED formVars
  /\ UNCHANGED login

\* The render of route r after a navigation to it.
RouteRender(r) ==
  /\ route' = r
  /\ mounted' = RenderPage(r, authLoading, user)
  /\ guardEffect' = (r \in RoutesWithAuthGuard)
  /\ pageEffect' = IF RenderPage(r, authLoading, user) THEN "mount" ELSE "none"

\* The user follows a link or goes back or forward in the history.
UserNavigates(r) ==
  /\ EffectsFlushed
  /\ r # route
  /\ RouteRender(r)
  /\ navCount' = 0
  /\ UNCHANGED <<sessVars, pageRequest, dbVars, listVars>>
  /\ UNCHANGED formVars
  /\ UNCHANGED login

\* One flush of the scheduled effects: the page's (its useRequireAuth
\* check, the admin check, the data effect), then the guard's check.  Each
\* navigate call to the login route is counted; the last call decides the
\* route.
FlushEffects ==
  /\ ~EffectsFlushed
  /\ LET pageRuns == pageEffect # "none"
         pageToAuth == /\ pageRuns
                       /\ route \in PagesRequiringAuth
                       /\ RequireAuthRedirects(authLoading, user)
         pageToHome == pageRuns /\ AdminPageRedirects(route, user)
         pageIssues == pageRuns /\ PageFetches(route, user, pageEffect)
         guardToAuth == guardEffect /\ RequireAuthRedirects(authLoading, user)
         toAuth == (IF pageToAuth THEN 1 ELSE 0) + (IF guardToAuth THEN 1 ELSE 0)
         target == IF guardToAuth THEN "/auth"
                   ELSE IF pageToHome THEN "/"
                   ELSE IF pageToAuth THEN "/auth"
                   ELSE route
     IN /\ navCount' = navCount + toAuth
        /\ pageRequest' = IF pageIssues THEN pageRequest \cup {route}
                          ELSE pageRequest
        /\ IF target # route
           THEN RouteRender(target)
           ELSE /\ guardEffect' = FALSE
                /\ pageEffect' = "none"
                /\ UNCHANGED <<route, mounted>>
  /\ UNCHANGED <<sessVars, dbVars, listVars>>
  /\ UNCHANGED formVars
  /\ UNCHANGED login

\* The backend answers the request of the page of route r.
RequestAnswered(r) ==
  /\ r \in pageRequest
  /\ pageRequest' = pageRequest \ {r}
  /\ UNCHANGED <<sessVars, route, mounted, guardEffect, pageEffect, navCount,
                 dbVars, listVars>>
  /\ UNCHANGED formVars
  /\ UNCHANGED login

\* The listing state while the session and the guard are studied.
ListIdle ==
  /\ view = "index"
  /\ products = <<>>
  /\ loading = TRUE
  /\ fetchPc = "idle"
  /\ productsData = <<>>
  /\ photosData = <<>>
  /\ deletes = {}
  /\ searchTerm = <<>>
  /\ toast = "none"

\* The application starts at any route, the session not yet resolved.
InitGuard ==
  /\ authLoading = TRUE
  /\ user = NoUser
  /\ route \in Routes
  /\ mounted = RenderPage(route, TRUE, NoUser)
  /\ guardEffect = (route \in RoutesWithAuthGuard)
  /\ pageEffect = (IF RenderPage(route, TRUE, NoUser) THEN "mount" ELSE "none")
  /\ pageRequest = {}
  /\ navCount = 0
  /\ dbProducts = <<>>
  /\ dbPhotos = <<>>
  /\ ListIdle
  /\ FormIdle
  /\ LoginIdle

NextGuard ==
  \/ \E u \in Users \cup {NoUser} : SessionResolves(u)
  \/ \E u \in Users : SignIn(u)
  \/ SignOut
  \/ \E r \in Routes : UserNavigates(r)
  \/ FlushEffects
  \/ \E r \in Routes : RequestAnswered(r)

SpecGuard == InitGuard /\ [][NextGuard]_vars

(***************************************************************************)
(* Claims about the route guard.                                           *)
(***************************************************************************)
\* The routes of the guarded views: dashboard, product form, admin panel.
GuardedViews == {"/dashboard", "/products/new", "/products/edit", "/admin"}

\* C5: while the session is loading no guarded view is rendered and none has
\* issued a backend request; a guarded view is rendered only when loading is
\* false and a user is present.
C5_GuardedViewWaitsForSession ==
  /\ authLoading =>
       /\ ~(route \in GuardedViews /\ mounted)
       /\ pageRequest \cap GuardedViews = {}
  /\ (route \in GuardedViews /\ mounted) => (~authLoading /\ user # NoUser)

\* C5 witness: the application sits on a guarded route with the session
\* still loading, the guard's check has run, and the view is not rendered.
C5_Witness ==
  /\ authLoading
  /\ route = "/products/edit"
  /\ EffectsFlushed
  /\ ~mounted

\* C6: on a guarded route a resolution to "no user" is followed by exactly
\* one navigation to /auth: the redirect is scheduled as soon as the state
\* is reached (never skipped), at most one navigation is issued per
\* resolution, and none while loading or with a user present.
C6_RedirectExactlyOnce ==
  /\ navCount <= 1
  /\ navCount = 1 => (~authLoading /\ user = NoUser /\ route = "/auth")
  /\ (route \in GuardedViews /\ ~authLoading /\ user = NoUser) =>
       (guardEffect /\ navCount = 0)

\* C6 witness: the redirect has been issued, once.
C6_Witness == navCount = 1 /\ route = "/auth"


(***************************************************************************)
(* Numbers.  A number is counted in hundredths (the price inputs step by   *)
(* 0.01); a numeric column holds a set, empty when the value is null.      *)
(***************************************************************************)
DigitChars == <<"0", "1", "2", "3", "4", "5", "6", "7", "8", "9">>

DigitValue(c) == (CHOOSE d \in 1..10 : DigitChars[d] = c) - 1

\* The value of the digits t[a..b].
RECURSIVE DigitsValue(_, _, _)
DigitsValue(t, a, b) ==
  IF b < a THEN 0 ELSE DigitsValue(t, a, b - 1) * 10 + DigitValue(t[b])

\* parseFloat of a numeral with at most two decimals.
ParseFloat(t) ==
  LET dot == IF \E i \in 1..Len(t) : t[i] = "."
             THEN CHOOSE i \in 1..Len(t) : t[i] = "."
             ELSE Len(t) + 1
      tenths == IF dot + 1 <= Len(t) THEN DigitValue(t[dot + 1]) ELSE 0
      hundredths == IF dot + 2 <= Len(t) THEN DigitValue(t[dot + 2]) ELSE 0
  IN DigitsValue(t, 1, dot - 1) * 100 + tenths * 10 + hundredths

RECURSIVE DigitsOf(_)
DigitsOf(w) ==
  IF w < 10 THEN <<DigitChars[w + 1]>>
  ELSE DigitsOf(w \div 10) \o <<DigitChars[(w % 10) + 1]>>

\* Number.prototype.toString
NumberToString(n) ==
  LET f == n % 100
  IN DigitsOf(n \div 100) \o
       (IF f = 0 THEN <<>>
        ELSE IF f % 10 = 0 THEN <<".", DigitChars[(f \div 10) + 1]>>
        ELSE <<".", DigitChars[(f \div 10) + 1], DigitChars[(f % 10) + 1]>>)

(***************************************************************************)
(* Product form.                                                           *)
(*                                                                         *)
(* photos holds entries [id, url, isNew, file]: a stored photo has its     *)
(* record id and a public url; a newly attached one has no id, an object   *)
(* url <<"blob", b>> and its file.  blobs[b] counts the revocations of     *)
(* object url b.  sub is the submission last started: its position pc, the *)
(* form state and user it captured, and what it has done so far.           *)
(***************************************************************************)
\* The :id of the edit route, and another product of the backend.
EditId == 1
OtherId == 2

FormRoutes == {"/products/new", "/products/edit"}
FormRoute(mode) == IF mode = "edit" THEN "/products/edit" ELSE "/products/new"

\* What the inputs can hold.
NameTexts == { <<>>, <<"a">> }
MrpTexts == { <<>>, <<"0">>, <<"4", ".", "5", "0">> }
DiscountTexts == { <<>>, <<"2", ".", "5">> }
FieldTexts(f) ==
  CASE f = "name" -> NameTexts [] f = "mrp" -> MrpTexts [] f = "discount" -> DiscountTexts

\* The form is rendered, below the loading spinner's early return.
FormShown == route \in FormRoutes /\ mounted /\ ~formLoading

\* The component is mounted: its state setters still act.
FormMounted == route \in FormRoutes /\ mounted

\* navigate(r)
NavigateTo(r) ==
  IF route = r
  THEN UNCHANGED <<route, mounted, guardEffect, pageEffect>>
  ELSE RouteRender(r)

\* Leaving the form's route unmounts the component: its state is discarded.
FormUnmounts ==
  /\ product' = EmptyForm
  /\ photos' = <<>>

\* productData with an empty number written as zero.
ProductDataZeroDefault(form, uid) ==
  [name |-> form.name,
   mrp |-> IF Truthy(form.mrp) THEN {ParseFloat(form.mrp)} ELSE {0},
   discount |-> IF Truthy(form.discount) THEN {ParseFloat(form.discount)} ELSE {0},
   user_id |-> uid]

\* const productData = { ...product, user_id, mrp: ..., discount: ... }
ProductData(form, uid) ==
  [name |-> form.name,
   mrp |-> IF Truthy(form.mrp) THEN {ParseFloat(form.mrp)} ELSE {},
   discount |-> IF Truthy(form.discount) THEN {ParseFloat(form.discount)} ELSE {},
   user_id |-> uid]

\* value?.toString() || ""
NumberText(col) ==
  IF col = {} THEN <<>> ELSE NumberToString(CHOOSE n \in col : TRUE)

\* formattedProduct
FormattedProduct(row) ==
  [name |-> row.name, mrp |-> NumberText(row.mrp),
   discount |-> NumberText(row.discount)]

\* formattedPhotos
FormattedPhotos(rows) ==
  [i \in 1..Len(rows) |->
     [id |-> rows[i].id, url |-> <<"public", rows[i].id>>, isNew |-> FALSE,
      file |-> FALSE]]

\* .eq("id", id) / .eq("product_id", id)
RowsOfProduct(rows, id) == SelectSeq(rows, LAMBDA r : r.product_id = id)
ProductExists(id) == \E i \in 1..Len(dbProducts) : dbProducts[i].id = id
ProductById(id) == dbProducts[CHOOSE i \in 1..Len(dbProducts) : dbProducts[i].id = id]

\* The identifier the backend gives the next inserted row.
FreshId(rows) ==
  IF rows = <<>> THEN 1
  ELSE 1 + (CHOOSE m \in {rows[i].id : i \in 1..Len(rows)} :
              \A i \in 1..Len(rows) : rows[i].id <= m)

\* The mount effect of edit mode calls fetchProduct.
FormLoadStart ==
  /\ formMode = "edit"
  /\ FormMounted
  /\ loadPc = "idle"
  /\ loadPc' = "product"
  /\ UNCHANGED <<sessVars, navVars, dbVars, listVars, formMode, formLoading,
                 loadedIds, product, photos, isSubmitting, sub, submits,
                 blobs, storage>>
  /\ UNCHANGED login

\* The product select answers: setProduct(formattedProduct), then the
\* photos select is issued.
FormLoadProductOk ==
  /\ loadPc = "product"
  /\ ProductExists(EditId)
  /\ product' = IF FormMounted THEN FormattedProduct(ProductById(EditId))
                ELSE product
  /\ loadPc' = "photos"
  /\ UNCHANGED <<sessVars, navVars, dbVars, listVars, formMode, formLoading,
                 loadedIds, photos, isSubmitting, sub, submits, blobs,
                 storage>>
  /\ UNCHANGED login

\* The photos select answers: setPhotos(formattedPhotos), then finally.
FormLoadPhotosOk ==
  /\ loadPc = "photos"
  /\ LET rows == RowsOfProduct(dbPhotos, EditId)
     IN /\ photos' = IF FormMounted THEN FormattedPhotos(rows) ELSE photos
        /\ loadedIds' = {rows[i].id : i \in 1..Len(rows)}
  /\ formLoading' = FALSE
  /\ loadPc' = "done"
  /\ UNCHANGED <<sessVars, navVars, dbVars, listVars, formMode, product,
                 isSubmitting, sub, submits, blobs, storage>>
  /\ UNCHANGED login

\* A failed load that only reports and ends the spinner.
FormLoadFailsStaying ==
  /\ loadPc \in {"product", "photos"}
  /\ toast' = "loadError"
  /\ formLoading' = FALSE
  /\ loadPc' = "failed"
  /\ UNCHANGED <<sessVars, navVars, dbVars, view, products, loading, fetchPc,
                 productsData, photosData, deletes, searchTerm, formMode,
                 loadedIds, product, photos, isSubmitting, sub, submits,
                 blobs, storage>>
  /\ UNCHANGED login

\* Either select fails: toast, navigate("/dashboard"), then finally.
FormLoadFails ==
  /\ loadPc \in {"product", "photos"}
  /\ toast' = "loadError"
  /\ NavigateTo("/dashboard")
  /\ FormUnmounts
  /\ formLoading' = FALSE
  /\ loadPc' = "failed"
  /\ UNCHANGED <<sessVars, pageRequest, navCount, dbVars, view, products,
                 loading, fetchPc, productsData, photosData, deletes,
                 searchTerm, formMode, loadedIds, isSubmitting, sub, submits,
                 blobs, storage>>
  /\ UNCHANGED login

\* handleChange: setProduct({ ...product, [name]: value })
HandleChange(f, text) ==
  /\ FormShown
  /\ product[f] # text
  /\ product' = [product EXCEPT ![f] = text]
  /\ UNCHANGED <<sessVars, navVars, dbVars, listVars, formMode, formLoading,
                 loadPc, loadedIds, photos, isSubmitting, sub, submits, blobs,
                 storage>>
  /\ UNCHANGED login

\* The files a picker hands over: images and other files.
FilePicksUpTo(n) ==
  UNION { [1..m -> {"image", "other"}] : m \in 1..n }

FilePicks == FilePicksUpTo(MaxBlobs)

\* URL.createObjectURL for each image among files, numbering on from n.
RECURSIVE NewPhotoEntries(_, _)
NewPhotoEntries(files, n) ==
  IF files = <<>> THEN <<>>
  ELSE IF Head(files) = "image"
       THEN <<[id |-> NoId, url |-> <<"blob", n + 1>>, isNew |-> TRUE,
               file |-> TRUE]>> \o NewPhotoEntries(Tail(files), n + 1)
       ELSE NewPhotoEntries(Tail(files), n)

\* Picking files keeps the object urls created so far within n.
BlobsWithin(files, n) ==
  Len(blobs) + Len(NewPhotoEntries(files, 0)) <= n

\* handlePhotoUpload: files that are not images are skipped with a toast.
HandlePhotoUpload(files) ==
  LET newPhotos == NewPhotoEntries(files, Len(blobs))
  IN /\ FormShown
     /\ blobs' = blobs \o [i \in 1..Len(newPhotos) |-> 0]
     /\ photos' = photos \o newPhotos
     /\ toast' = IF \E i \in 1..Len(files) : files[i] # "image"
                 THEN "notAnImage" ELSE toast
     /\ UNCHANGED <<sessVars, navVars, dbVars, view, products, loading,
                    fetchPc, productsData, photosData, deletes, searchTerm,
                    formMode, formLoading, loadPc, loadedIds, product,
                    isSubmitting, sub, submits, storage>>
  /\ UNCHANGED login

\* photo.url.startsWith("blob:")
StartsWithBlob(url) == url[1] = "blob"

\* newPhotos.splice(index, 1)
Splice(list, index) ==
  [i \in 1..(Len(list) - 1) |-> IF i < index THEN list[i] ELSE list[i + 1]]

\* removePhoto: a temporary url is revoked, then the entry is spliced out.
RemovePhoto(index) ==
  /\ FormShown
  /\ index \in 1..Len(photos)
  /\ LET photo == photos[index]
     IN blobs' = IF photo.isNew /\ StartsWithBlob(photo.url)
                 THEN [blobs EXCEPT ![photo.url[2]] = @ + 1]
                 ELSE blobs
  /\ photos' = Splice(photos, index)
  /\ UNCHANGED <<sessVars, navVars, dbVars, listVars, formMode, formLoading,
                 loadPc, loadedIds, product, isSubmitting, sub, submits,
                 storage>>
  /\ UNCHANGED login

\* The Back and Cancel buttons: navigate("/dashboard").
FormCancel ==
  /\ FormShown
  /\ NavigateTo("/dashboard")
  /\ FormUnmounts
  /\ UNCHANGED <<sessVars, pageRequest, navCount, dbVars, listVars, formMode,
                 formLoading, loadPc, loadedIds, isSubmitting, sub, submits,
                 blobs, storage>>
  /\ UNCHANGED login

\* photos.filter(photo => photo.isNew && photo.file)
NewPhotos(s) == SelectSeq(s.photos, LAMBDA ph : ph.isNew /\ ph.file)

\* photos.filter(photo => !photo.isNew && photo.id).map(photo => photo.id)
CurrentPhotoIds(s) ==
  {s.photos[i].id : i \in {j \in 1..Len(s.photos) :
                             ~s.photos[j].isNew /\ s.photos[j].id # NoId}}

\* currentPhotoIds.length > 0 ? `(${currentPhotoIds.join(',')})` : '(-1)'
NotInList(ids) == IF ids # {} THEN ids ELSE {-1}

\* The clean-up without its .not('id', 'in', ...) filter.
StalePhotosDeletedUnfiltered(rows, productId, ids) ==
  SelectSeq(rows, LAMBDA r : r.product_id # productId)

\* .delete().eq('product_id', productId).not('id', 'in', ...)
StalePhotosDeleted(rows, productId, ids) ==
  SelectSeq(rows, LAMBDA r : ~(r.product_id = productId /\ r.id \notin NotInList(ids)))

\* A request handleSubmit sends: what it does, the product it names, and for
\* a photo the number of the object url of its file.  sub.log lists the
\* requests of the submission in the order they were sent.
Request(op, id, k) == [op |-> op, id |-> id, k |-> k]

\* The number of the object url of a new photo's file.
FileOf(photo) == photo.url[2]

\* The new photos taken last first.
NewPhotoAtReversed(s, k) == NewPhotos(s)[Len(NewPhotos(s)) - k + 1]

\* for (const photo of newPhotos): the k-th photo of the loop.
NewPhotoAt(s, k) == NewPhotos(s)[k]

\* The products write that is always an insert.
WriteRequestAlwaysInsert(mode) == Request("insert", NoId, 0)

\* if (isEditMode) update(productData).eq("id", id) else insert(productData)
WriteRequest(mode) ==
  IF mode = "edit" THEN Request("update", EditId, 0)
  ELSE Request("insert", NoId, 0)

\* An edit that sends its delete right after the write.
AfterPhotoDeleteFirst(s, k) ==
  IF formMode = "edit"
  THEN [s EXCEPT !.pc = "cleanup",
                 !.log = Append(@, Request("photoDelete", s.productId, 0))]
  ELSE IF k < Len(NewPhotos(s))
  THEN [s EXCEPT !.pc = "upload", !.k = k + 1,
                 !.log = Append(@, Request("upload", s.productId,
                                           FileOf(NewPhotoAt(s, k + 1))))]
  ELSE [s EXCEPT !.pc = "done"]

\* Where handleSubmit stands after the k-th new photo is saved: the next
\* upload is sent, or the edit-mode delete, or the handler is at its end.
AfterPhoto(s, k) ==
  IF k < Len(NewPhotos(s))
  THEN [s EXCEPT !.pc = "upload", !.k = k + 1,
                 !.log = Append(@, Request("upload", s.productId,
                                           FileOf(NewPhotoAt(s, k + 1))))]
  ELSE IF formMode = "edit"
  THEN [s EXCEPT !.pc = "cleanup",
                 !.log = Append(@, Request("photoDelete", s.productId, 0))]
  ELSE [s EXCEPT !.pc = "done"]

\* What is left of a submission when handleSubmit has returned: the photo
\* list it had captured is no longer reachable.
Returned(s) == [s EXCEPT !.photos = <<>>, !.k = 0]

\* handleSubmit moves on to s; at its end: toast.success,
\* navigate("/dashboard"), finally setIsSubmitting(false).
Advance(s) ==
  /\ sub' = IF s.pc = "done" THEN Returned(s) ELSE s
  /\ IF s.pc = "done"
     THEN /\ toast' = "saved"
          /\ NavigateTo("/dashboard")
          /\ FormUnmounts
          /\ isSubmitting' = FALSE
     ELSE UNCHANGED <<toast, route, mounted, guardEffect, pageEffect,
                      product, photos, isSubmitting>>

\* handleSubmit without the check of the session user.
HandleSubmitIgnoringUser ==
  /\ FormShown
  /\ ~isSubmitting
  /\ Truthy(product.name)
  /\ submits < MaxSubmits
  /\ isSubmitting' = TRUE
  /\ sub' = [pc |-> "write", form |-> product,
             userId |-> IF user = NoUser THEN NoId ELSE user.id,
             photos |-> photos,
             productId |-> IF formMode = "edit" THEN EditId ELSE NoId,
             k |-> 0, inserted |-> {}, wrote |-> FALSE,
             log |-> <<WriteRequest(formMode)>>]
  /\ submits' = submits + 1
  /\ UNCHANGED <<sessVars, navVars, dbVars, view, products, loading, fetchPc,
                 productsData, photosData, deletes, searchTerm, toast,
                 formMode, formLoading, loadPc, loadedIds, product, photos,
                 blobs, storage>>
  /\ UNCHANGED login

\* handleSubmit up to its first await.  The name input is required and the
\* button is disabled while a submission runs.
HandleSubmit ==
  /\ FormShown
  /\ ~isSubmitting
  /\ Truthy(product.name)
  /\ submits < MaxSubmits
  /\ IF user = NoUser
     THEN /\ toast' = "mustLogIn"
          /\ UNCHANGED <<isSubmitting, sub, submits>>
     ELSE /\ isSubmitting' = TRUE
          /\ sub' = [pc |-> "write", form |-> product, userId |-> user.id,
                     photos |-> photos,
                     productId |-> IF formMode = "edit" THEN EditId ELSE NoId,
                     k |-> 0, inserted |-> {}, wrote |-> FALSE,
                     log |-> <<WriteRequest(formMode)>>]
          /\ submits' = submits + 1
          /\ UNCHANGED toast
  /\ UNCHANGED <<sessVars, navVars, dbVars, view, products, loading, fetchPc,
                 productsData, photosData, deletes, searchTerm, formMode,
                 formLoading, loadPc, loadedIds, product, photos, blobs,
                 storage>>
  /\ UNCHANGED login

\* .update(productData).eq("id", id)
UpdatedProducts(rows, id, data) ==
  [i \in 1..Len(rows) |->
     IF rows[i].id = id THEN [id |-> id] @@ data ELSE rows[i]]

\* The products write answers: update in edit mode, insert otherwise.
SubmitWriteOk ==
  /\ sub.pc = "write"
  /\ LET data == ProductData(sub.form, sub.userId)
         sent == sub.log[Len(sub.log)]
         productId == IF sent.op = "update" THEN sub.productId
                      ELSE FreshId(dbProducts)
     IN /\ dbProducts' =
             IF sent.op = "update"
             THEN UpdatedProducts(dbProducts, sent.id, data)
             ELSE Append(dbProducts, [id |-> productId] @@ data)
        /\ Advance(AfterPhoto([sub EXCEPT !.productId = productId,
                                          !.wrote = TRUE], 0))
  /\ UNCHANGED <<sessVars, pageRequest, navCount, dbPhotos, view, products,
                 loading, fetchPc, productsData, photosData, deletes,
                 searchTerm, formMode, formLoading, loadPc, loadedIds,
                 submits, blobs, storage>>
  /\ UNCHANGED login

\* The storage upload of the k-th new photo answers.
SubmitUploadOk ==
  /\ sub.pc = "upload"
  /\ storage' = storage \cup
                  {[dir |-> sub.productId, name |-> Cardinality(storage) + 1]}
  /\ sub' = [sub EXCEPT !.pc = "insert",
                        !.log = Append(@, Request("photoInsert", sub.productId,
                                                  FileOf(NewPhotoAt(sub, sub.k))))]
  /\ UNCHANGED <<sessVars, navVars, dbVars, listVars, formMode, formLoading,
                 loadPc, loadedIds, product, photos, isSubmitting, submits,
                 blobs>>
  /\ UNCHANGED login

\* The product_photos insert of the k-th new photo answers.
SubmitInsertOk ==
  /\ sub.pc = "insert"
  /\ LET photoId == FreshId(dbPhotos)
     IN /\ dbPhotos' = Append(dbPhotos, [id |-> photoId,
                                         product_id |-> sub.productId])
        /\ Advance(AfterPhoto([sub EXCEPT !.inserted = @ \cup {photoId}],
                              sub.k))
  /\ UNCHANGED <<sessVars, pageRequest, navCount, dbProducts, view, products,
                 loading, fetchPc, productsData, photosData, deletes,
                 searchTerm, formMode, formLoading, loadPc, loadedIds,
                 submits, blobs, storage>>
  /\ UNCHANGED login

\* The edit-mode delete of removed photos answers.
SubmitCleanupOk ==
  /\ sub.pc = "cleanup"
  /\ dbPhotos' = StalePhotosDeleted(dbPhotos, sub.productId,
                                    CurrentPhotoIds(sub))
  /\ Advance([sub EXCEPT !.pc = "done"])
  /\ UNCHANGED <<sessVars, pageRequest, navCount, dbProducts, view, products,
                 loading, fetchPc, productsData, photosData, deletes,
                 searchTerm, formMode, formLoading, loadPc, loadedIds,
                 submits, blobs, storage>>
  /\ UNCHANGED login

\* A failure that takes back the photo records of the submission.
SubmitFailsRollingBack ==
  /\ sub.pc \in {"write", "upload", "insert", "cleanup"}
  /\ sub' = Returned([sub EXCEPT !.pc = "failed"])
  /\ toast' = "submitError"
  /\ isSubmitting' = FALSE
  /\ dbPhotos' = SelectSeq(dbPhotos, LAMBDA r : r.id \notin sub.inserted)
  /\ UNCHANGED <<sessVars, navVars, dbProducts, view, products, loading,
                 fetchPc, productsData, photosData, deletes, searchTerm,
                 formMode, formLoading, loadPc, loadedIds, product, photos,
                 submits, blobs, storage>>
  /\ UNCHANGED login

\* A failure that also empties the form.
SubmitFailsResettingForm ==
  /\ sub.pc \in {"write", "upload", "insert", "cleanup"}
  /\ sub' = Returned([sub EXCEPT !.pc = "failed"])
  /\ toast' = "submitError"
  /\ isSubmitting' = FALSE
  /\ product' = EmptyForm
  /\ photos' = <<>>
  /\ UNCHANGED <<sessVars, navVars, dbVars, view, products, loading, fetchPc,
                 productsData, photosData, deletes, searchTerm, formMode,
                 formLoading, loadPc, loadedIds, submits, blobs, storage>>
  /\ UNCHANGED login

\* A failure handled by the catch alone, without the finally.
SubmitFailsStillSubmitting ==
  /\ sub.pc \in {"write", "upload", "insert", "cleanup"}
  /\ sub' = Returned([sub EXCEPT !.pc = "failed"])
  /\ toast' = "submitError"
  /\ UNCHANGED <<sessVars, navVars, dbVars, view, products, loading, fetchPc,
                 productsData, photosData, deletes, searchTerm, formMode,
                 formLoading, loadPc, loadedIds, product, photos,
                 isSubmitting, submits, blobs, storage>>
  /\ UNCHANGED login

\* Any backend call of handleSubmit fails: catch, then finally.
SubmitFails ==
  /\ sub.pc \in {"write", "upload", "insert", "cleanup"}
  /\ sub' = Returned([sub EXCEPT !.pc = "failed"])
  /\ toast' = "submitError"
  /\ isSubmitting' = FALSE
  /\ UNCHANGED <<sessVars, navVars, dbVars, view, products, loading, fetchPc,
                 productsData, photosData, deletes, searchTerm, formMode,
                 formLoading, loadPc, loadedIds, product, photos, submits,
                 blobs, storage>>
  /\ UNCHANGED login

\* products rows as the form writes them: a price of 4.50 and no discount.
FormProductRow(id) ==
  [id |-> id, name |-> <<"a">>, mrp |-> {450}, discount |-> {},
   user_id |-> VendorUser.id]

\* n photos of the edited product, and one of another product.
FormPhotoTable(n) ==
  [k \in 1..(n + 1) |->
     [id |-> k, product_id |-> IF k <= n THEN EditId ELSE OtherId]]

\* A signed-in vendor opens the form, to create a product or to edit one.
InitForm ==
  /\ authLoading = FALSE
  /\ user = VendorUser
  /\ formMode \in {"create", "edit"}
  /\ route = FormRoute(formMode)
  /\ mounted = TRUE
  /\ guardEffect = FALSE
  /\ pageEffect = "none"
  /\ pageRequest = {}
  /\ navCount = 0
  /\ dbProducts = <<FormProductRow(EditId), FormProductRow(OtherId)>>
  /\ \E n \in IF formMode = "edit" THEN 0..MaxStoredPhotos ELSE {0} :
       dbPhotos = FormPhotoTable(n)
  /\ ListIdle
  /\ formLoading = (formMode = "edit")
  /\ loadPc = "idle"
  /\ loadedIds = {}
  /\ product = EmptyForm
  /\ photos = <<>>
  /\ isSubmitting = FALSE
  /\ sub = NoSub
  /\ submits = 0
  /\ blobs = <<>>
  /\ storage = {}
  /\ LoginIdle

\* The form component rendered in either session state: its handlers read
\* the session user themselves.
InitFormSession ==
  /\ authLoading = FALSE
  /\ user \in {VendorUser, NoUser}
  /\ formMode \in {"create", "edit"}
  /\ route = FormRoute(formMode)
  /\ mounted = TRUE
  /\ guardEffect = FALSE
  /\ pageEffect = "none"
  /\ pageRequest = {}
  /\ navCount = 0
  /\ dbProducts = <<FormProductRow(EditId), FormProductRow(OtherId)>>
  /\ \E n \in IF formMode = "edit" THEN 0..MaxStoredPhotos ELSE {0} :
       dbPhotos = FormPhotoTable(n)
  /\ ListIdle
  /\ formLoading = (formMode = "edit")
  /\ loadPc = "idle"
  /\ loadedIds = {}
  /\ product = EmptyForm
  /\ photos = <<>>
  /\ isSubmitting = FALSE
  /\ sub = NoSub
  /\ submits = 0
  /\ blobs = <<>>
  /\ storage = {}
  /\ LoginIdle

\* Product form, the user working on the text fields only.
NextFormFields ==
  \/ FormLoadStart
  \/ FormLoadProductOk
  \/ FormLoadPhotosOk
  \/ FormLoadFails
  \/ \E f \in {"name", "mrp", "discount"} : \E text \in FieldTexts(f) :
       HandleChange(f, text)
  \/ FormCancel
  \/ HandleSubmit
  \/ SubmitWriteOk
  \/ SubmitCleanupOk
  \/ SubmitFails

SpecFormFields == InitForm /\ [][NextFormFields]_vars

\* The same form, with or without a session user.
SpecFormSession == InitFormSession /\ [][NextFormFields]_vars

\* Product form, the user working on the photos (and the required name).
NextFormPhotos ==
  \/ FormLoadStart
  \/ FormLoadProductOk
  \/ FormLoadPhotosOk
  \/ FormLoadFails
  \/ \E text \in NameTexts : HandleChange("name", text)
  \/ \E files \in FilePicks :
       BlobsWithin(files, MaxBlobs) /\ HandlePhotoUpload(files)
  \/ \E index \in 1..(MaxStoredPhotos + MaxBlobs) : RemovePhoto(index)
  \/ FormCancel
  \/ HandleSubmit
  \/ SubmitWriteOk
  \/ SubmitUploadOk
  \/ SubmitInsertOk
  \/ SubmitCleanupOk
  \/ SubmitFails

SpecFormPhotos == InitForm /\ [][NextFormPhotos]_vars

\* Product form, the user attaching photos and never removing one.
NextFormUploads ==
  \/ FormLoadStart
  \/ FormLoadProductOk
  \/ FormLoadPhotosOk
  \/ FormLoadFails
  \/ \E text \in NameTexts : HandleChange("name", text)
  \/ \E files \in FilePicksUpTo(MaxUploads) :
       BlobsWithin(files, MaxUploads) /\ HandlePhotoUpload(files)
  \/ FormCancel
  \/ HandleSubmit
  \/ SubmitWriteOk
  \/ SubmitUploadOk
  \/ SubmitInsertOk
  \/ SubmitCleanupOk
  \/ SubmitFails

SpecFormUploads == InitForm /\ [][NextFormUploads]_vars

(***************************************************************************)
(* The product form left while a request of it is in flight.               *)
(***************************************************************************)
\* The routes the user goes to from the form with the browser's history or
\* address bar.
LeaveTargets == {"/", "/dashboard"}

\* The user leaves the form's route: the form component unmounts.
FormLeaves(r) ==
  /\ FormMounted
  /\ EffectsFlushed
  /\ r \in LeaveTargets
  /\ RouteRender(r)
  /\ FormUnmounts
  /\ UNCHANGED <<sessVars, pageRequest, navCount, dbVars, listVars, formMode,
                 formLoading, loadPc, loadedIds, isSubmitting, sub, submits,
                 blobs, storage>>
  /\ UNCHANGED login

\* The dashboard's Home button: navigate('/').
DashboardHome ==
  /\ route = "/dashboard"
  /\ mounted
  /\ EffectsFlushed
  /\ RouteRender("/")
  /\ UNCHANGED <<sessVars, pageRequest, navCount, dbVars, listVars>>
  /\ UNCHANGED formVars
  /\ UNCHANGED login

NextLeave ==
  \/ FormLoadStart
  \/ FormLoadProductOk
  \/ FormLoadPhotosOk
  \/ FormLoadFails
  \/ \E text \in NameTexts : HandleChange("name", text)
  \/ FormCancel
  \/ \E r \in LeaveTargets : FormLeaves(r)
  \/ DashboardHome
  \/ FlushEffects
  \/ HandleSubmit
  \/ SubmitWriteOk
  \/ SubmitCleanupOk
  \/ SubmitFails

SpecLeave == InitForm /\ [][NextLeave]_vars

(***************************************************************************)
(* A listing view or the product form, with a backend that answers every   *)
(* request.                                                                *)
(***************************************************************************)
\* The backend answers the pending select of a listing fetch.
FetchAnswer ==
  \/ FetchProductsOk
  \/ FetchPhotosOk
  \/ FetchFails

\* The backend answers the pending select of the edit-mode load.
LoadAnswer ==
  \/ FormLoadProductOk
  \/ FormLoadPhotosOk
  \/ FormLoadFails

\* The backend answers the pending call of a submission.
SubmitAnswer ==
  \/ SubmitWriteOk
  \/ SubmitUploadOk
  \/ SubmitInsertOk
  \/ SubmitCleanupOk
  \/ SubmitFails

\* A listing view is opened, or the product form is.
InitLive == InitListing \/ InitForm

\* The listing's mount effect runs on the listing's route.
NextLive ==
  \/ route = ListingRoute(view) /\ FetchStart
  \/ FetchAnswer
  \/ FormLoadStart
  \/ LoadAnswer
  \/ \E text \in NameTexts : HandleChange("name", text)
  \/ \E files \in FilePicks :
       BlobsWithin(files, MaxBlobs) /\ HandlePhotoUpload(files)
  \/ FormCancel
  \/ HandleSubmit
  \/ SubmitAnswer

SpecLive ==
  /\ InitLive
  /\ [][NextLive]_vars
  /\ WF_vars(FetchAnswer)
  /\ WF_vars(LoadAnswer)
  /\ WF_vars(SubmitAnswer)

(***************************************************************************)
(* The admin panel opened by a signed-in user.                             *)
(***************************************************************************)
\* A user whose address spells the word with a capital.
CapitalAdminUser ==
  [id |-> 3, email |-> <<"A", "d", "m", "i", "n", "@", "x">>]

\* The admin check that stops at the toast.
AdminMountEffectsWithoutNavigate ==
  /\ view = "admin"
  /\ route = "/admin"
  /\ pageEffect = "mount"
  /\ pageEffect' = "none"
  /\ guardEffect' = FALSE
  /\ toast' = IF AdminPageRedirects(route, user) THEN "noAccess" ELSE toast
  /\ fetchPc' = IF FetchCondition("admin", user) THEN "products" ELSE fetchPc
  /\ UNCHANGED <<sessVars, route, mounted, pageRequest, navCount, dbVars,
                 view, products, loading, productsData, photosData, deletes,
                 searchTerm>>
  /\ UNCHANGED formVars
  /\ UNCHANGED login

\* The effects of AdminPage after its first render, in one flush: the admin
\* check (navigate('/') and a toast for another user), then the data effect
\* (fetchProducts for an admin).  The navigation replaces the panel by the
\* Index page, whose state starts afresh.
AdminMountEffects ==
  /\ view = "admin"
  /\ route = "/admin"
  /\ pageEffect = "mount"
  /\ IF AdminPageRedirects(route, user)
     THEN /\ toast' = "noAccess"
          /\ RouteRender("/")
          /\ view' = "index"
     ELSE /\ pageEffect' = "none"
          /\ guardEffect' = FALSE
          /\ UNCHANGED <<route, mounted, view, toast>>
  /\ fetchPc' = IF FetchCondition("admin", user) THEN "products" ELSE fetchPc
  /\ UNCHANGED <<sessVars, pageRequest, navCount, dbVars, products, loading,
                 productsData, photosData, deletes, searchTerm>>
  /\ UNCHANGED formVars
  /\ UNCHANGED login

\* The mount effect of the Index page reached by the redirect.
IndexMountEffect ==
  /\ view = "index"
  /\ pageEffect = "mount"
  /\ pageEffect' = "none"
  /\ guardEffect' = FALSE
  /\ fetchPc' = IF fetchPc = "idle" /\ FetchCondition("index", user)
                THEN "products" ELSE fetchPc
  /\ UNCHANGED <<sessVars, route, mounted, pageRequest, navCount, dbVars,
                 view, products, loading, productsData, photosData, deletes,
                 searchTerm, toast>>
  /\ UNCHANGED formVars
  /\ UNCHANGED login

\* A signed-in user has just opened /admin: the panel is rendered and its
\* effects are scheduled.
InitAdmin ==
  /\ authLoading = FALSE
  /\ user \in Users \cup {CapitalAdminUser}
  /\ view = "admin"
  /\ route = "/admin"
  /\ mounted = TRUE
  /\ guardEffect = TRUE
  /\ pageEffect = "mount"
  /\ pageRequest = {}
  /\ navCount = 0
  /\ dbProducts \in ProductTables
  /\ dbPhotos \in PhotoTables
  /\ products = <<>>
  /\ loading = TRUE
  /\ fetchPc = "idle"
  /\ productsData = <<>>
  /\ photosData = <<>>
  /\ deletes = {}
  /\ searchTerm = <<>>
  /\ toast = "none"
  /\ FormIdle
  /\ LoginIdle

NextAdmin ==
  \/ AdminMountEffects
  \/ IndexMountEffect
  \/ FetchProductsOk
  \/ FetchFails
  \/ FetchPhotosOk
  \/ \E id \in ProductIds : DeleteConfirmed(id)
  \/ \E id \in ProductIds : DeleteDeclined(id)
  \/ \E r \in deletes : DeleteSucceeds(r)
  \/ \E r \in deletes : DeleteFails(r)

SpecAdmin == InitAdmin /\ [][NextAdmin]_vars

\* C12: a signed-in user whose e-mail does not contain "admin" is on the
\* panel only until its effects run and is on "/" afterwards, and while on
\* the panel has no fetch issued, no product shown and no delete issued; for
\* a user whose e-mail contains "admin" the panel stays and its fetch is
\* issued with the effects.
C12_AdminPanelIsAdminOnly ==
  /\ ~EmailIncludesAdmin(user) =>
       /\ view = "admin" =>
            /\ pageEffect = "mount"
            /\ fetchPc = "idle"
            /\ products = <<>>
            /\ VisibleIds = {}
            /\ deletes = {}
       /\ view # "admin" => route = "/"
  /\ EmailIncludesAdmin(user) =>
       /\ view = "admin" /\ route = "/admin"
       /\ pageEffect = "none" => fetchPc # "idle"

\* A user without "admin" in the e-mail has been sent from the panel to "/".
C12_Witness ==
  /\ ~EmailIncludesAdmin(user)
  /\ route = "/"
  /\ toast = "noAccess"
  /\ deletes = {}

(***************************************************************************)
(* Further properties of the listing views.                                *)
(***************************************************************************)
\* C20: issuing a delete request and a failed answer leave the list and the
\* backend rows as they are; a product leaves the list only in a step in
\* which a delete is answered without error, and only when the backend has
\* deleted its row.
C20_RemovedOnlyAfterConfirmedDelete ==
  [][/\ \A id \in ProductIds : DeleteConfirmed(id) =>
          /\ products' = products
          /\ dbProducts' = dbProducts
          /\ \E r \in deletes' \ deletes : r.id = id
     /\ \A r \in deletes : DeleteFails(r) =>
          /\ products' = products
          /\ dbProducts' = dbProducts
          /\ toast' = "deleteError"
     /\ \A id \in ProductIdsIn(products) \ ProductIdsIn(products') :
          /\ id \notin ProductIdsIn(dbProducts')
          /\ \E r \in deletes : DeleteSucceeds(r)]_vars

\* A delete has failed: the product is still in the list and in the backend.
C20_Witness ==
  /\ toast = "deleteError"
  /\ deletes = {}
  /\ products # <<>>
  /\ ProductIdsIn(products) = ProductIdsIn(dbProducts)

\* C11: every product in the dashboard's list belongs to the session user.
C11_DashboardShowsOwnProductsOnly ==
  view = "dashboard" =>
    \A i \in 1..Len(products) : products[i].user_id = user.id

(***************************************************************************)
(* Properties of the product form.                                         *)
(***************************************************************************)
\* The requests of log whose operation is in ops.
Sent(log, ops) == SelectSeq(log, LAMBDA q : q.op \in ops)

\* The identifiers of the photo records of product id.
PhotoIdsOf(rows, id) ==
  {rows[i].id : i \in {j \in 1..Len(rows) : rows[j].product_id = id}}

\* The rows of a table, as a set.
RowSet(rows) == {rows[i] : i \in 1..Len(rows)}

\* C7: once a submission has written its product record, that record
\* exists, and its mrp is null when the submitted mrp text was empty and its
\* discount is null when the submitted discount text was empty (null, not 0).
C7_EmptyNumbersWrittenAsNull ==
  sub.wrote =>
    /\ ProductExists(sub.productId)
    /\ sub.form.mrp = <<>> => ProductById(sub.productId).mrp = {}
    /\ sub.form.discount = <<>> => ProductById(sub.productId).discount = {}

\* A create-mode submission with only a name has succeeded, and the record
\* it wrote has neither a price nor a discount.
C7_Witness ==
  /\ formMode = "create"
  /\ sub.pc = "done"
  /\ sub.form = [name |-> <<"a">>, mrp |-> <<>>, discount |-> <<>>]
  /\ ProductExists(sub.productId)
  /\ ProductById(sub.productId).name = <<"a">>
  /\ ProductById(sub.productId).mrp = {}
  /\ ProductById(sub.productId).discount = {}

\* C8: in edit mode, when two photos were loaded, the submitted list keeps
\* exactly one of them and attaches nothing new, the step that completes the
\* submission leaves exactly the kept photo's record for the product.
C8_RemoveOneOfTwoKeepsTheOther ==
  [][(/\ SubmitCleanupOk
      /\ Cardinality(loadedIds) = 2
      /\ NewPhotos(sub) = <<>>
      /\ Cardinality(CurrentPhotoIds(sub)) = 1
      /\ CurrentPhotoIds(sub) \subseteq loadedIds)
     => PhotoIdsOf(dbPhotos', sub.productId) = CurrentPhotoIds(sub)]_vars

\* An edit of a product with two stored photos has succeeded without new
\* photos, and one of the two records is left.
C8_Witness ==
  /\ formMode = "edit"
  /\ sub.pc = "done"
  /\ sub.inserted = {}
  /\ Cardinality(loadedIds) = 2
  /\ \E id \in loadedIds : PhotoIdsOf(dbPhotos, EditId) = {id}

\* C9: the step that completes an edit-mode submission removes from
\* product_photos exactly the records of the edited product that the
\* submission did not create and whose id is not in the submitted photo list;
\* the records created for newly attached photos and the records of other
\* products remain.
C9_CleanupDeletesExactlyStale ==
  [][SubmitCleanupOk =>
       RowSet(dbPhotos') =
         {r \in RowSet(dbPhotos) :
            ~(/\ r.product_id = sub.productId
              /\ r.id \notin sub.inserted
              /\ r.id \notin CurrentPhotoIds(sub))}]_vars

\* C10: no object url is revoked twice, none is revoked while its photo is
\* in the form's list, and once the form is gone every object url created
\* has been revoked exactly once.
C10_PreviewsReleasedExactlyOnce ==
  /\ \A b \in 1..Len(blobs) : blobs[b] <= 1
  /\ \A b \in 1..Len(blobs) :
       (\E i \in 1..Len(photos) : photos[i].url = <<"blob", b>>) => blobs[b] = 0
  /\ ~FormMounted => \A b \in 1..Len(blobs) : blobs[b] = 1

\* C13: a submission sends exactly one products write: in create mode an
\* insert and never an update, in edit mode an update that names the route's
\* id and never an insert.  The insert yields a row with a new id, and every
\* photo record the submission writes references that id (create) or the
\* route's id (edit).
C13_ModeFixedByRoute ==
  [][/\ (sub.pc # "idle" =>
           /\ Len(Sent(sub.log, {"insert", "update"})) = 1
           /\ formMode = "create" => Sent(sub.log, {"update"}) = <<>>
           /\ formMode = "edit" =>
                /\ Sent(sub.log, {"insert"}) = <<>>
                /\ Sent(sub.log, {"update"})[1].id = EditId)'
     /\ SubmitWriteOk =>
          IF formMode = "edit"
          THEN /\ sub'.productId = EditId
               /\ ProductIdsIn(dbProducts') = ProductIdsIn(dbProducts)
          ELSE /\ sub'.productId \notin ProductIdsIn(dbProducts)
               /\ ProductIdsIn(dbProducts') =
                    ProductIdsIn(dbProducts) \cup {sub'.productId}
     /\ SubmitInsertOk =>
          /\ formMode = "edit" => sub.productId = EditId
          /\ sub.wrote
          /\ dbPhotos'[Len(dbPhotos')].product_id = sub.productId
          /\ Len(dbPhotos') = Len(dbPhotos) + 1]_vars

\* A create-mode submission with a new photo has succeeded: its photo record
\* references the product row it inserted.
C13_Witness ==
  /\ formMode = "create"
  /\ sub.pc = "done"
  /\ sub.inserted # {}
  /\ sub.productId \notin {EditId, OtherId}
  /\ PhotoIdsOf(dbPhotos, sub.productId) = sub.inserted

\* C14: in edit mode the form is shown only when both loads have answered,
\* and then with the product's fields and all its photos; before that the
\* spinner is shown and no submission exists; after a failed load the view
\* is /dashboard with the error toast and the form is not shown.
C14_EditFormWaitsForLoad ==
  formMode = "edit" =>
    /\ loadPc \in {"idle", "product", "photos"} =>
         /\ formLoading
         /\ ~FormShown
         /\ sub = NoSub
    /\ FormShown =>
         /\ loadPc = "done"
         /\ \A i \in 1..Len(photos) :
              photos[i].isNew \/ photos[i].id \in loadedIds
    /\ loadPc = "done" /\ sub = NoSub =>
         loadedIds = PhotoIdsOf(dbPhotos, EditId)
    /\ loadPc = "failed" =>
         /\ route = "/dashboard"
         /\ ~FormShown
         /\ toast = "loadError"
         /\ sub = NoSub

\* The photos select failed after the product had been loaded: the view is
\* the dashboard, with the error toast.
C14_Witness ==
  /\ formMode = "edit"
  /\ loadPc = "failed"
  /\ route = "/dashboard"
  /\ toast = "loadError"

\* C15: the failure of any step of a submission shows the error toast,
\* leaves the route, the form fields and the photo list as they are and sets
\* isSubmitting to false; the steps before it leave the fields and the photo
\* list alone as well, so the form is what it was when submitted unless the
\* user changed it meanwhile.
C15_FailureKeepsForm ==
  [][/\ SubmitFails =>
          /\ toast' = "submitError"
          /\ route' = route
          /\ product' = product
          /\ photos' = photos
          /\ isSubmitting' = FALSE
          /\ sub'.pc = "failed"
     /\ (HandleSubmit \/ SubmitWriteOk \/ SubmitUploadOk \/ SubmitInsertOk)
          /\ sub'.pc \notin {"done", "idle"} =>
          /\ product' = product
          /\ photos' = photos
          /\ route' = route
          /\ isSubmitting']_vars

\* A submission with a new photo has failed: the form is still shown, with
\* its name and its photo, ready to be submitted again.
C15_Witness ==
  /\ sub.pc = "failed"
  /\ FormShown
  /\ toast = "submitError"
  /\ ~isSubmitting
  /\ product = sub.form
  /\ \E i \in 1..Len(photos) : photos[i].isNew

(***************************************************************************)
(* The admin login page.  App declares no route for it; LoginRoute stands  *)
(* for wherever it is mounted.                                             *)
(***************************************************************************)
LoginRoute == "/admin-auth"

\* What the inputs can hold.
LoginEmails == {AdminUser.email, VendorUser.email, CapitalAdminUser.email}
LoginPasswords == { <<"p">> }

\* The page renders its forms unless a resolved session has a user, in
\* which case it renders a Navigate.
LoginShown == route = LoginRoute /\ ~(user # NoUser /\ ~authLoading)

\* The user the session holds once signIn(email, password) has succeeded.
AccountOf(email) == CHOOSE u \in Users \cup {CapitalAdminUser} : u.email = email

\* !email.includes("admin") && !email.includes("Admin")
NotAdminFormat(email) ==
  /\ ~Includes(email, <<"a", "d", "m", "i", "n">>)
  /\ ~Includes(email, <<"A", "d", "m", "i", "n">>)

LoginUnchanged ==
  UNCHANGED <<dbVars, view, products, loading, fetchPc, productsData,
              photosData, deletes, searchTerm, formVars>>

\* onChange of the email inputs: setEmail(e.target.value)
SetEmail(text) ==
  /\ LoginShown
  /\ login.email # text
  /\ login' = [login EXCEPT !.email = text]
  /\ UNCHANGED <<sessVars, navVars, toast>>
  /\ LoginUnchanged

\* onChange of the password inputs: setPassword(e.target.value)
SetPassword(text) ==
  /\ LoginShown
  /\ login.password # text
  /\ login' = [login EXCEPT !.password = text]
  /\ UNCHANGED <<sessVars, navVars, toast>>
  /\ LoginUnchanged

\* The Back to Home button: navigate("/")
LoginBackHome ==
  /\ LoginShown
  /\ RouteRender("/")
  /\ UNCHANGED <<sessVars, pageRequest, navCount, toast, login>>
  /\ LoginUnchanged

\* handleSubmit up to its await.  Both inputs are required and the buttons
\* are disabled while isLoading or the session's loading is true.
LoginSubmit(isLogin) ==
  /\ LoginShown
  /\ ~login.isLoading /\ ~authLoading
  /\ login.email # <<>> /\ login.password # <<>>
  /\ login.calls < MaxLoginCalls
  /\ IF NotAdminFormat(login.email)
     THEN /\ toast' = "adminsOnly"
          /\ UNCHANGED login
     ELSE /\ login' = [login EXCEPT !.isLoading = TRUE,
                                    !.pc = IF isLogin THEN "signIn" ELSE "signUp",
                                    !.sent = login.email,
                                    !.calls = @ + 1]
          /\ UNCHANGED toast
  /\ UNCHANGED <<sessVars, navVars>>
  /\ LoginUnchanged

\* A failed call that goes on to the panel all the same.
LoginCallFailsNavigating ==
  /\ login.pc \in {"signIn", "signUp"}
  /\ login' = [login EXCEPT !.isLoading = FALSE, !.pc = "idle"]
  /\ RouteRender("/admin")
  /\ UNCHANGED <<sessVars, pageRequest, navCount, toast>>
  /\ LoginUnchanged

\* signIn or signUp rejects: catch (console.error), then finally.
LoginCallFails ==
  /\ login.pc \in {"signIn", "signUp"}
  /\ login' = [login EXCEPT !.isLoading = FALSE, !.pc = "idle"]
  /\ UNCHANGED <<sessVars, navVars, toast>>
  /\ LoginUnchanged

\* signIn resolves: the session holds the user, navigate("/admin"), finally.
LoginSignInOk ==
  /\ login.pc = "signIn"
  /\ user' = AccountOf(login.sent)
  /\ route' = "/admin"
  /\ mounted' = RenderPage("/admin", authLoading, user')
  /\ guardEffect' = TRUE
  /\ pageEffect' = "mount"
  /\ login' = [login EXCEPT !.isLoading = FALSE, !.pc = "idle"]
  /\ UNCHANGED <<authLoading, pageRequest, navCount, toast>>
  /\ LoginUnchanged

\* signUp resolves: toast.success, finally.
LoginSignUpOk ==
  /\ login.pc = "signUp"
  /\ toast' = "accountCreated"
  /\ login' = [login EXCEPT !.isLoading = FALSE, !.pc = "idle"]
  /\ UNCHANGED <<sessVars, navVars>>
  /\ LoginUnchanged

\* The login page is open and nobody is signed in.
InitLogin ==
  /\ authLoading = FALSE
  /\ user = NoUser
  /\ route = LoginRoute
  /\ mounted = TRUE
  /\ guardEffect = FALSE
  /\ pageEffect = "none"
  /\ pageRequest = {}
  /\ navCount = 0
  /\ dbProducts = <<>>
  /\ dbPhotos = <<>>
  /\ ListIdle
  /\ FormIdle
  /\ LoginIdle

NextLogin ==
  \/ \E text \in LoginEmails \cup {<<>>} : SetEmail(text)
  \/ \E text \in LoginPasswords \cup {<<>>} : SetPassword(text)
  \/ LoginBackHome
  \/ \E isLogin \in BOOLEAN : LoginSubmit(isLogin)
  \/ LoginCallFails
  \/ LoginSignInOk
  \/ LoginSignUpOk

SpecLogin == InitLogin /\ [][NextLogin]_vars

\* C16: a failed signIn or signUp changes neither the user (who stays
\* absent) nor the route nor the email and password, and ends with the busy
\* flag false; the route becomes /admin only in the step in which a signIn
\* succeeds; an authentication call is made only for an email that contains
\* "admin" or "Admin".
C16_FailedLoginChangesNothing ==
  [][/\ LoginCallFails =>
          /\ user = NoUser /\ user' = NoUser
          /\ route' = route
          /\ toast' = toast
          /\ login'.email = login.email
          /\ login'.password = login.password
          /\ ~login'.isLoading
     /\ route' = "/admin" =>
          /\ login.pc = "signIn"
          /\ user' # NoUser
          /\ user'.email = login.sent
     /\ login'.calls # login.calls =>
          /\ ~NotAdminFormat(login.email)
          /\ login'.sent = login.email
          /\ login'.calls = login.calls + 1
     /\ (\E isLogin \in BOOLEAN : LoginSubmit(isLogin))
          /\ NotAdminFormat(login.email) =>
          /\ login' = login
          /\ user' = user
          /\ route' = route]_vars

\* A sign-in attempt with an admin email has failed: nobody is signed in,
\* the page and its inputs are as before, the busy flag is false.
C16_Witness ==
  /\ login.calls > 0
  /\ login.pc = "idle"
  /\ ~login.isLoading
  /\ user = NoUser
  /\ route = LoginRoute
  /\ login.email = AdminUser.email
  /\ login.password # <<>>
  /\ toast = "none"

(***************************************************************************)
(* Properties of the order of a submission's requests.                     *)
(***************************************************************************)
\* The photo requests of a log: uploads and photo record inserts.
PhotoSteps(log) == Sent(log, {"upload", "photoInsert"})

\* The requests of steps are upload, insert, upload, insert, ... for the
\* files of list, taken in the order of list.
InListOrder(steps, list) ==
  /\ Len(steps) <= 2 * Len(list)
  /\ \A j \in 1..Len(steps) :
       /\ steps[j].op = (IF j % 2 = 1 THEN "upload" ELSE "photoInsert")
       /\ steps[j].k = FileOf(list[(j + 1) \div 2])

\* C17: while a submission runs, its photo requests are upload and insert of
\* the first new photo of the submitted list, then of the second, and so on,
\* each sent once; a request is sent only in the step in which the one
\* before it is answered without error; a failed step sends nothing, and
\* nothing is sent after it until the user submits again.
C17_UploadsSequential ==
  [][/\ (sub.pc \in {"write", "upload", "insert", "cleanup"} =>
           InListOrder(PhotoSteps(sub.log), NewPhotos(sub)))'
     /\ sub'.log # sub.log =>
          \/ HandleSubmit /\ Len(sub'.log) = 1
          \/ /\ SubmitWriteOk \/ SubmitUploadOk \/ SubmitInsertOk
             /\ sub'.log = Append(sub.log, sub'.log[Len(sub'.log)])
     /\ SubmitFails => sub'.log = sub.log /\ sub'.pc = "failed"
     /\ sub.pc = "failed" /\ sub' # sub => HandleSubmit]_vars

\* The insert of the first of two new photos has failed: the log ends with
\* it, and the second photo was never uploaded.
C17_Witness ==
  /\ sub.pc = "failed"
  /\ Len(sub.log) = 3
  /\ sub.log[3].op = "photoInsert"
  /\ \E i, j \in 1..Len(photos) : i < j /\ photos[i].isNew /\ photos[j].isNew

\* C18: when a submission has failed at a photo upload, the product row it
\* wrote exists with the submitted name, every photo record it inserted
\* exists for that product, one per insert it sent, and it sent no delete;
\* the failing step itself leaves both collections and the storage alone.
C18_NoRollbackAfterUploadFailure ==
  [][/\ (sub.pc = "failed" /\ sub.log[Len(sub.log)].op = "upload" =>
           /\ sub.wrote
           /\ ProductExists(sub.productId)
           /\ ProductById(sub.productId).name = sub.form.name
           /\ sub.inserted \subseteq PhotoIdsOf(dbPhotos, sub.productId)
           /\ Cardinality(sub.inserted) = Len(Sent(sub.log, {"photoInsert"}))
           /\ Sent(sub.log, {"photoDelete"}) = <<>>)'
     /\ SubmitFails =>
          /\ dbProducts' = dbProducts
          /\ dbPhotos' = dbPhotos
          /\ storage' = storage]_vars

\* The upload of the second new photo has failed after the first photo's
\* record was inserted.
C18_Witness ==
  /\ sub.pc = "failed"
  /\ sub.log[Len(sub.log)].op = "upload"
  /\ sub.inserted # {}
  /\ sub.inserted \subseteq PhotoIdsOf(dbPhotos, sub.productId)
  /\ ProductExists(sub.productId)

\* C19: the first request of a submission is its products write, and when
\* that fails it stays the only one; every photo record insert directly
\* follows the upload of the same file, is sent in the step in which that
\* upload succeeds, and the uploaded object's path is under the product id,
\* which every photo request names; the photo delete is sent in edit mode
\* only, last, once every new photo of the submitted list has its record.
C19_StepOrder ==
  [][/\ (sub.pc # "idle" =>
           /\ sub.log[1].op \in {"insert", "update"}
           /\ (sub.pc = "failed" /\ ~sub.wrote) => Len(sub.log) = 1
           /\ sub.pc = "write" => Len(sub.log) = 1
           /\ \A j \in 2..Len(sub.log) :
                /\ sub.wrote
                /\ sub.log[j].op \in {"upload", "photoInsert", "photoDelete"}
                /\ sub.log[j].id = sub.productId
                /\ sub.log[j].op = "photoInsert" =>
                     /\ sub.log[j - 1].op = "upload"
                     /\ sub.log[j - 1].k = sub.log[j].k
                /\ sub.log[j].op = "photoDelete" =>
                     /\ formMode = "edit"
                     /\ j = Len(sub.log)
                     /\ Len(Sent(sub.log, {"upload"})) = Cardinality(sub.inserted)
           /\ sub.pc = "cleanup" =>
                /\ Cardinality(sub.inserted) = Len(NewPhotos(sub))
                /\ sub.inserted \subseteq PhotoIdsOf(dbPhotos, sub.productId))'
     /\ Len(Sent(sub'.log, {"photoInsert"})) > Len(Sent(sub.log, {"photoInsert"})) =>
          /\ SubmitUploadOk
          /\ \E path \in storage' \ storage : path.dir = sub.productId
     /\ SubmitWriteOk => sub.log = <<sub.log[1]>>]_vars

\* An edit with a new photo has sent its write, the upload, the record
\* insert and then the delete, and has succeeded.
C19_Witness ==
  /\ formMode = "edit"
  /\ sub.pc = "done"
  /\ Len(sub.log) = 4
  /\ sub.log[1].op = "update"
  /\ sub.log[2].op = "upload"
  /\ sub.log[3].op = "photoInsert"
  /\ sub.log[4].op = "photoDelete"
  /\ \E path \in storage : path.dir = EditId

\* C21: a failed listing fetch, of the products or of the photos, ends with
\* loading false, the list still empty and the error notification; nothing
\* issues the fetch again; and when the products select is the one that
\* failed, the photos select is never issued.
C21_FetchFailureEndsEmpty ==
  [][/\ FetchFails =>
          /\ ~loading'
          /\ products' = <<>>
          /\ toast' = "fetchError"
          /\ fetchPc' = "failed"
          /\ (fetchPc = "products" => photosData' = <<>> /\ productsData' = <<>>)
     /\ fetchPc = "failed" =>
          /\ fetchPc' = "failed"
          /\ products' = <<>>
          /\ ~loading'
     /\ fetchPc' = "photos" /\ fetchPc # "photos" => FetchProductsOk]_vars

\* The photos select failed after the products select had returned rows.
C21_Witness ==
  /\ fetchPc = "failed"
  /\ productsData # <<>>
  /\ products = <<>>
  /\ ~loading
  /\ toast = "fetchError"

\* C22: the list is written by the fetch only when both selects have
\* succeeded, and then with the merge of all fetched rows; until then it is
\* the initial empty list; loading is cleared only by that write or by the
\* failure of the fetch.
C22_ListWrittenAfterBothFetches ==
  [][/\ fetchPc \in {"idle", "products", "photos"} =>
          /\ products = <<>>
          /\ loading
     /\ fetchPc # "done" /\ products' # products =>
          /\ FetchPhotosOk
          /\ fetchPc = "photos"
     /\ FetchPhotosOk =>
          /\ products' = MergePhotos(productsData, photosData')
          /\ Len(products') = Len(productsData)
          /\ ~loading'
     /\ loading' # loading => ~loading' /\ (FetchPhotosOk \/ FetchFails)]_vars

\* The products select has returned rows and the photos select is pending:
\* the list is still empty and loading.
C22_Witness ==
  /\ fetchPc = "photos"
  /\ productsData # <<>>
  /\ products = <<>>
  /\ loading

\* The backend answers a request of the product form (a select of the
\* edit-mode load or a call of a submission).
FormAnswer ==
  \/ FormLoadProductOk
  \/ FormLoadPhotosOk
  \/ FormLoadFails
  \/ SubmitWriteOk
  \/ SubmitCleanupOk
  \/ SubmitFails

\* C23: an answer of the backend that arrives when the product form is no
\* longer mounted is discarded: it changes neither the form's fields and
\* photos nor the route.
C23_LateAnswerDiscarded ==
  [][FormAnswer /\ ~FormMounted => UNCHANGED <<route, mounted, product, photos>>]_vars

\* C24: whatever the order of the delete answers, a product that has left
\* the list does not come back into it, and once every answer has arrived
\* the list holds exactly the fetched products that are still stored.
C24_DeletedNeverReappears ==
  [][/\ fetchPc = "done" =>
          ProductIdsIn(products') \subseteq ProductIdsIn(products)
     /\ (fetchPc = "done" /\ deletes = {}) =>
          ProductIdsIn(products) =
            ProductIdsIn(productsData) \cap ProductIdsIn(dbProducts)]_vars

\* C25: over one session of the create form, retries included, at most one
\* product row is inserted, and no more photo records than photos were
\* attached.
C25_RetryInsertsNoSecondProduct ==
  formMode = "create" =>
    /\ Len(dbProducts) <=
         Len(<<FormProductRow(EditId), FormProductRow(OtherId)>>) + 1
    /\ Len(dbPhotos) <= Len(FormPhotoTable(0)) + Len(blobs)

\* 'admin@example.com'
ExampleAdminEmail ==
  <<"a", "d", "m", "i", "n", "@", "e", "x", "a", "m", "p", "l", "e", ".",
    "c", "o", "m">>

\* DashboardPage: user.email === 'admin@example.com' shows Admin Panel.
ShowsAdminPanelLink(u) == u.email = ExampleAdminEmail

\* C26: whoever the login gate let sign in is admitted by the admin panel,
\* and the dashboard shows the Admin Panel link to the users the panel
\* admits and to no others.
C26_AdminChecksAgree ==
  user # NoUser =>
    /\ FetchCondition("admin", user)
    /\ ~AdminPageRedirects("/admin", user)
    /\ ShowsAdminPanelLink(user) <=> FetchCondition("admin", user)

\* C27: the form writes to the backend only for a submission started with a
\* session user; a submit without one shows the error and changes neither
\* isSubmitting nor any stored record; a submission starts only when none
\* is in flight, and while one is in flight its products write stays the
\* only one.
C27_SubmitNeedsUserAndIsExclusive ==
  [][/\ user = NoUser =>
          /\ UNCHANGED <<isSubmitting, sub, submits, dbVars, storage>>
          /\ HandleSubmit => toast' = "mustLogIn"
     /\ (dbVars' # dbVars \/ storage' # storage) =>
          /\ user # NoUser
          /\ isSubmitting
          /\ sub.userId = user.id
     /\ submits' # submits =>
          /\ ~isSubmitting
          /\ sub.pc \in {"idle", "done", "failed"}
          /\ isSubmitting'
     /\ (isSubmitting /\ isSubmitting') =>
          /\ submits' = submits
          /\ Len(Sent(sub'.log, {"insert", "update"})) = 1]_vars

\* Submit was pressed on a filled form without a session user.
C27_Witness ==
  /\ user = NoUser
  /\ FormShown
  /\ Truthy(product.name)
  /\ toast = "mustLogIn"
  /\ ~isSubmitting
  /\ sub = NoSub

\* C28: with a backend that answers every request, a listing fetch that was
\* started ends with loading false, an edit-mode load that was started ends
\* with the form's loading false, and a submission that was started ends
\* with isSubmitting false.
C28_StartedOperationsEnd ==
  /\ (fetchPc \in {"products", "photos"}) ~>
       (fetchPc \in {"done", "failed"} /\ ~loading)
  /\ (loadPc \in {"product", "photos"}) ~>
       (loadPc \in {"done", "failed"} /\ ~formLoading)
  /\ (sub.pc \in {"write", "upload", "insert", "cleanup"}) ~>
       (sub.pc \in {"done", "failed"} /\ ~isSubmitting)

\* An edit form whose load has ended and whose submission, a photo
\* attached, has ended in a failure.
C28_Witness ==
  /\ formMode = "edit"
  /\ loadPc = "done"
  /\ ~formLoading
  /\ sub.pc = "failed"
  /\ sub.wrote
  /\ ~isSubmitting

====
